---- MODULE Spec2Model ----
(***************************************************************************)
(* Activity Logger (main.py): the logger thread's polling loop, the log    *)
(* files it rotates through, and the interval controller shared with the   *)
(* tray menu.                                                              *)
(*                                                                         *)
(* The wall clock is in whole seconds.  One step of the logger thread is   *)
(* one stretch of logger_thread between two reads of the clock or of the   *)
(* shared state, so that the clock, the tray menu and the stop request may *)
(* act between any two of them.                                            *)
(***************************************************************************)
EXTENDS Integers, Sequences, FiniteSets, TLC

\* ---------------------------------------------------------------- bounds
MaxTicks == 3          \* loop iterations of one exploration
MaxEvents == 2         \* times the environment disturbs the program: a late
                       \* clock, a tick with failing calls, a restart
MaxSets == 2           \* set-interval commands of the tray menu
CtlTicks == 1          \* loop iterations beside the tray menu
SteadyTicks == 610     \* loop iterations of the steady scenario
StopTicks == 2         \* loop iterations of the shutdown scenario
SleepTicks == 2        \* loop iterations of the sleep scenario

\* ------------------------------------------------------- program constants
DEFAULT_INTERVAL == 3
MAX_REPEAT_SEC == 300
OPEN_ATTEMPTS == 3
MenuIntervals == {1, 3, 5, 10}

\* -------------------------------------------------------------- the clock
SecondsPerHour == 60 * 60
SecondsPerDay == 24 * SecondsPerHour

\* time.localtime().tm_hour
tm_hour(t) == (t % SecondsPerDay) \div SecondsPerHour

\* time.strftime('%Y-%m-%d'): the calendar day, counted from day 0
strftime_date(t) == t \div SecondsPerDay

\* hour_block = (now.tm_hour // 6) * 6
HourBlock(t) == (tm_hour(t) \div 6) * 6

\* activity_<date>_<hour_block>h.csv
LogPath(date, block) == <<date, block>>

NoPath == <<-1, -1>>

\* ------------------------------------------------------------ observations
None == "<None>"
NoWindow == <<None, None>>
Windows == {NoWindow, <<"chrome.exe", "Docs">>, <<"chrome.exe", "Mail">>}

\* exe or "", title or ""
OrEmpty(s) == IF s = None THEN "" ELSE s

\* ------------------------------------------------------------------- rows
HeaderRow ==
    [kind |-> "header", session |-> 0, id |-> 0, ts |-> 0,
     exe |-> "exe", title |-> "title"]

RecordRow(session, id, ts, exe, title) ==
    [kind |-> "record", session |-> session, id |-> id, ts |-> ts,
     exe |-> OrEmpty(exe), title |-> OrEmpty(title)]

\* ------------------------------------------------------------ settings.json
JNum(n) == <<"num", n>>
JNull == <<"null", 0>>
JStr == <<"str", 0>>

Dict(has, v) == [has_interval |-> has, interval |-> v]

StoreAbsent == [kind |-> "absent", dict |-> Dict(FALSE, JNull)]
StoreCorrupt == [kind |-> "corrupt", dict |-> Dict(FALSE, JNull)]
StoreObject(d) == [kind |-> "object", dict |-> d]

\* settings.json exists and open() refuses it; settings.json holds a JSON list,
\* which json.load returns as a Python list
StoreUnreadable == [kind |-> "unreadable", dict |-> Dict(FALSE, JNull)]
JSONList == [list |-> <<>>]
StoreList == [kind |-> "list", dict |-> JSONList]
IsDict(d) == "has_interval" \in DOMAIN d

\* load_settings falling back to the menu's first interval
load_settingsFirstItem(st) ==
    IF st.kind = "object" THEN st.dict ELSE Dict(TRUE, JNum(1))

\* load_settings(): what json.load returns, or the default when the file is
\* missing, cannot be opened or does not parse
load_settings(st) ==
    IF st.kind \in {"object", "list"} THEN st.dict
    ELSE Dict(TRUE, JNum(DEFAULT_INTERVAL))

\* settings.get("interval", DEFAULT_INTERVAL)
settings_get_interval(d) ==
    IF d.has_interval THEN d.interval ELSE JNum(DEFAULT_INTERVAL)

\* time.sleep(v) accepts a non-negative number and raises on anything else
SleepAccepts(v) == v[1] = "num" /\ v[2] >= 0

\* ------------------------------------------------------------------ state
VARIABLES
    clock,           \* the wall clock, in seconds
    focus,           \* <<exe, title>> of the window that has the input focus
    files,           \* the Logs directory: path -> the rows of the file
    store,           \* settings.json
    handles,         \* file handles the process holds open
    SESSION_ID,      \* the run's session id
    stop_flag,
    settings,        \* the settings dict in memory
    interval_value,
    interval_lock,   \* "free", "logger" or the context inside set_interval
    t,               \* logger_thread: its position and its locals
    ui,              \* the tray menu's contexts: position in set_interval
    h,               \* history of the tick in progress and of the last set
    left             \* what is left of the bounds

env == <<clock, focus, files, store, handles>>
globals == <<SESSION_ID, stop_flag, settings, interval_value, interval_lock>>
vars == <<clock, focus, files, store, handles, SESSION_ID, stop_flag, settings,
          interval_value, interval_lock, t, ui, h, left>>

Contexts == {"menu1", "menu2"}

NoFile == [path |-> NoPath, closed |-> TRUE, none |-> TRUE]
FileObject(p) == [path |-> p, closed |-> FALSE, none |-> FALSE]

\* logger_thread's locals when the thread starts
LoggerStart ==
    [pc |-> "loop",
     last_exe |-> None, last_title |-> None, last_write_time |-> 0,
     current_file |-> NoFile, seq_id |-> 0, current_path |-> NoPath,
     log_path |-> NoPath, hour_block |-> 0, attempts |-> 0,
     exe |-> None, title |-> None, now |-> 0,
     sleep_int |-> JNull, timestamp |-> 0]

UiStart == [c \in Contexts |-> [pc |-> "idle", value |-> 0]]

NoSet == [value |-> 0, returned |-> FALSE, any |-> FALSE]

\* what the tick in progress has done so far, and what the loop's state was
\* when it began
TickStart(lg, faulted) ==
    [rotated |-> FALSE, sampled |-> FALSE, emitted |-> 0, faulted |-> FALSE,
     after_fault |-> faulted, hit |-> FALSE,
     pre_seq |-> lg.seq_id, pre_exe |-> lg.last_exe, pre_title |-> lg.last_title,
     pre_write |-> lg.last_write_time, pre_path |-> lg.current_path]

\* the files with row r appended to the file at p
Append_(fs, p, r) == [fs EXCEPT ![p] = Append(@, r)]

\* open(path, "a"): the file is created empty when it does not exist
Created(fs, p) ==
    IF p \in DOMAIN fs THEN fs
    ELSE [q \in DOMAIN fs \cup {p} |-> IF q = p THEN <<>> ELSE fs[q]]

\* file.close(): closing a closed file does nothing
Closed(f) == [f EXCEPT !.closed = TRUE]
HandlesAfterClose(f, n) == IF f.closed THEN n ELSE n - 1

\* the process starts: module level of main.py, then main()
Startup(st, session) ==
    /\ SESSION_ID' = session
    /\ stop_flag' = FALSE
    /\ settings' = load_settings(st)
    /\ interval_value' = settings_get_interval(load_settings(st))
    /\ interval_lock' = "free"
    /\ t' = LoggerStart
    /\ ui' = UiStart
    /\ handles' = 0

InitWith(clocks, windows, stores, budget) ==
    /\ clock \in clocks
    /\ focus \in windows
    /\ files = [p \in {} |-> <<>>]
    /\ store \in stores
    /\ handles = 0
    /\ SESSION_ID = 1
    /\ stop_flag = FALSE
    /\ settings = load_settings(store)
    /\ interval_value = settings_get_interval(load_settings(store))
    /\ interval_lock = "free"
    /\ t = LoggerStart
    /\ ui = UiStart
    /\ h = [tick |-> TickStart(LoggerStart, FALSE), last_set |-> NoSet,
            store0 |-> store, clock0 |-> clock]
    /\ left = budget

\* module level of main.py with a settings value that has no get():
\* line 104 raises AttributeError, the import fails, main() is never called
InitCrashed(clocks, windows, stores) ==
    /\ clock \in clocks
    /\ focus \in windows
    /\ files = [p \in {} |-> <<>>]
    /\ store \in stores
    /\ handles = 0
    /\ SESSION_ID = 1
    /\ stop_flag = FALSE
    /\ settings = load_settings(store)
    /\ interval_value = JNull
    /\ interval_lock = "free"
    /\ t = [LoggerStart EXCEPT !.pc = "crashed"]
    /\ ui = UiStart
    /\ h = [tick |-> TickStart(LoggerStart, FALSE), last_set |-> NoSet,
            store0 |-> store, clock0 |-> clock]
    /\ left = [ticks |-> 0, events |-> 0, sets |-> 0]

\* the tray icon exists: the process has started and has not ended
TrayRuns == t.pc \notin {"crashed", "killed"}

\* ------------------------------------------------------------ logger_thread
At(pc) == t.pc = pc

\* the environment makes a call of this tick fail: a tick it has not hit yet
\* counts against the bound
MayFail == h.tick.hit \/ left.events > 0
Hit(hist) == [hist EXCEPT !.tick.hit = TRUE]
AfterHit(l) == IF h.tick.hit THEN l ELSE [l EXCEPT !.events = @ - 1]

\* while not stop_flag: the loop starts another tick
LoopEnter ==
    /\ At("loop") /\ ~stop_flag /\ left.ticks > 0
    /\ t' = [t EXCEPT !.pc = "path_hour"]
    /\ h' = [h EXCEPT !.tick = TickStart(t, h.tick.faulted)]
    /\ left' = [left EXCEPT !.ticks = @ - 1]
    /\ UNCHANGED <<env, globals, ui>>

\* while not stop_flag: the flag is set and the loop is left
LoopExit ==
    /\ At("loop") /\ stop_flag
    /\ t' = [t EXCEPT !.pc = "exit"]
    /\ UNCHANGED <<env, globals, ui, h, left>>

\* if current_file: current_file.close(), and the thread ends
ThreadExit ==
    /\ At("exit")
    /\ handles' = HandlesAfterClose(t.current_file, handles)
    /\ t' = [t EXCEPT !.pc = "done", !.current_file = Closed(@)]
    /\ UNCHANGED <<clock, focus, files, store, globals, ui, h, left>>

\* current_log_path(): now = time.localtime()
PathHour ==
    /\ At("path_hour")
    /\ t' = [t EXCEPT !.pc = "path_date", !.hour_block = HourBlock(clock)]
    /\ UNCHANGED <<env, globals, ui, h, left>>

\* current_log_path(): time.strftime('%Y-%m-%d'), then log_path != current_path
PathDate ==
    LET path == LogPath(strftime_date(clock), t.hour_block)
        differs == path # t.current_path
    IN  /\ At("path_date")
        /\ t' = [t EXCEPT !.pc = IF differs THEN "close" ELSE "sample",
                          !.log_path = path]
        /\ h' = [h EXCEPT !.tick.rotated = differs]
        /\ UNCHANGED <<env, globals, ui, left>>

\* if current_file: current_file.close()
ClosePrior ==
    /\ At("close")
    /\ handles' = HandlesAfterClose(t.current_file, handles)
    /\ t' = [t EXCEPT !.pc = "open_hour", !.current_file = Closed(@),
                      !.attempts = 0]
    /\ UNCHANGED <<clock, focus, files, store, globals, ui, h, left>>

\* safe_open_log(): current_log_path() again, now = time.localtime()
OpenHour ==
    /\ At("open_hour")
    /\ t' = [t EXCEPT !.pc = "open", !.hour_block = HourBlock(clock)]
    /\ UNCHANGED <<env, globals, ui, h, left>>

\* safe_open_log(): open(current_log_path(), "a") returns a file
OpenOK ==
    LET path == LogPath(strftime_date(clock), t.hour_block)
    IN  /\ At("open")
        /\ files' = Created(files, path)
        /\ handles' = handles + 1
        /\ t' = [t EXCEPT !.pc = "stat", !.current_file = FileObject(path)]
        /\ UNCHANGED <<clock, focus, store, globals, ui, h, left>>

\* OpenDenied that takes the rotation as done when it gives up
OpenDeniedKeepsPath ==
    /\ At("open") /\ MayFail
    /\ clock' = clock + 1
    /\ t' = [t EXCEPT !.attempts = @ + 1,
                      !.pc = IF t.attempts + 1 < OPEN_ATTEMPTS
                             THEN "open_hour" ELSE "except",
                      !.current_path = IF t.attempts + 1 < OPEN_ATTEMPTS
                                       THEN @ ELSE t.log_path]
    /\ h' = Hit(h) /\ left' = AfterHit(left)
    /\ UNCHANGED <<focus, files, store, handles, globals, ui>>

\* safe_open_log(): open raises PermissionError, time.sleep(1); after the
\* third attempt PermissionError is raised to the loop
OpenDenied ==
    /\ At("open") /\ MayFail
    /\ clock' = clock + 1
    /\ t' = [t EXCEPT !.attempts = @ + 1,
                      !.pc = IF t.attempts + 1 < OPEN_ATTEMPTS
                             THEN "open_hour" ELSE "except"]
    /\ h' = Hit(h) /\ left' = AfterHit(left)
    /\ UNCHANGED <<focus, files, store, handles, globals, ui>>

\* StatReset that forgets to reset last_exe, last_title and last_write_time
StatResetKeepsLast ==
    /\ At("stat")
    /\ t.log_path \in DOMAIN files
    /\ files' = IF Len(files[t.log_path]) = 0
                THEN Append_(files, t.current_file.path, HeaderRow)
                ELSE files
    /\ t' = [t EXCEPT !.pc = "sample", !.seq_id = 0,
                      !.current_path = t.log_path]
    /\ UNCHANGED <<clock, focus, store, handles, globals, ui, h, left>>

\* os.stat(log_path) raises: there is no file at log_path
StatMissing ==
    /\ At("stat")
    /\ t.log_path \notin DOMAIN files
    /\ t' = [t EXCEPT !.pc = "except"]
    /\ UNCHANGED <<env, globals, ui, h, left>>

\* if os.stat(log_path).st_size == 0: the header through the new writer;
\* seq_id = 0, current_path = log_path, last_* reset
StatReset ==
    /\ At("stat")
    /\ t.log_path \in DOMAIN files
    /\ files' = IF Len(files[t.log_path]) = 0
                THEN Append_(files, t.current_file.path, HeaderRow)
                ELSE files
    /\ t' = [t EXCEPT !.pc = "sample", !.seq_id = 0,
                      !.current_path = t.log_path,
                      !.last_exe = None, !.last_title = None,
                      !.last_write_time = 0]
    /\ UNCHANGED <<clock, focus, store, handles, globals, ui, h, left>>

\* exe, title = get_active_window_info(); now = time.time()
Sample ==
    /\ At("sample")
    /\ t' = [t EXCEPT !.pc = "lock", !.exe = focus[1], !.title = focus[2],
                      !.now = clock]
    /\ h' = [h EXCEPT !.tick.sampled = TRUE]
    /\ UNCHANGED <<env, globals, ui, left>>

\* with interval_lock: entered
LockAcquire ==
    /\ At("lock")
    /\ interval_lock = "free"
    /\ interval_lock' = "logger"
    /\ t' = [t EXCEPT !.pc = "read"]
    /\ UNCHANGED <<env, SESSION_ID, stop_flag, settings, interval_value, ui, h, left>>

\* Emits with >= for the keepalive test
EmitsAtLimit(lg) ==
    \/ lg.exe # lg.last_exe
    \/ lg.title # lg.last_title
    \/ lg.now - lg.last_write_time >= MAX_REPEAT_SEC

\* Emits without the keepalive test
EmitsOnChange(lg) ==
    \/ lg.exe # lg.last_exe
    \/ lg.title # lg.last_title

\* if exe != last_exe or title != last_title or (now - last_write_time > MAX_REPEAT_SEC)
Emits(lg) ==
    \/ lg.exe # lg.last_exe
    \/ lg.title # lg.last_title
    \/ lg.now - lg.last_write_time > MAX_REPEAT_SEC

\* sleep_int = interval_value under the lock, the lock released, then the
\* emission test
ReadRelease ==
    /\ At("read")
    /\ interval_lock' = "free"
    /\ t' = [t EXCEPT !.pc = IF Emits(t) THEN "stamp" ELSE "sleep",
                      !.sleep_int = interval_value]
    /\ UNCHANGED <<env, SESSION_ID, stop_flag, settings, interval_value, ui, h, left>>

\* seq_id += 1; timestamp = time.strftime(...)
Stamp ==
    /\ At("stamp")
    /\ t' = [t EXCEPT !.pc = "write", !.seq_id = @ + 1, !.timestamp = clock]
    /\ UNCHANGED <<env, globals, ui, h, left>>

\* the row the tick writes
TickRow(lg, session) == RecordRow(session, lg.seq_id, lg.timestamp, lg.exe, lg.title)

\* WriteOK that forgets last_write_time = now
WriteOKKeepsTime ==
    /\ At("write")
    /\ ~t.current_file.closed
    /\ files' = Append_(files, t.current_file.path, TickRow(t, SESSION_ID))
    /\ t' = [t EXCEPT !.pc = "sleep", !.last_exe = t.exe, !.last_title = t.title]
    /\ h' = [h EXCEPT !.tick.emitted = @ + 1]
    /\ UNCHANGED <<clock, focus, store, handles, globals, ui, left>>

\* writer.writerow(...); current_file.flush(); last_* = exe, title, now
WriteOK ==
    /\ At("write")
    /\ ~t.current_file.closed
    /\ files' = Append_(files, t.current_file.path, TickRow(t, SESSION_ID))
    /\ t' = [t EXCEPT !.pc = "sleep", !.last_exe = t.exe, !.last_title = t.title,
                      !.last_write_time = t.now]
    /\ h' = [h EXCEPT !.tick.emitted = @ + 1]
    /\ UNCHANGED <<clock, focus, store, handles, globals, ui, left>>

\* writer.writerow(...) raises: nothing reaches the file
WriteFail ==
    /\ At("write") /\ MayFail
    /\ t' = [t EXCEPT !.pc = "except"]
    /\ h' = Hit(h) /\ left' = AfterHit(left)
    /\ UNCHANGED <<env, globals, ui>>

\* current_file.flush() raises: the row stays in the file object's buffer
\* and reaches the file with the next flush or close
FlushFail ==
    /\ At("write") /\ MayFail
    /\ ~t.current_file.closed
    /\ files' = Append_(files, t.current_file.path, TickRow(t, SESSION_ID))
    /\ t' = [t EXCEPT !.pc = "except"]
    /\ h' = [Hit(h) EXCEPT !.tick.emitted = @ + 1]
    /\ left' = AfterHit(left)
    /\ UNCHANGED <<clock, focus, store, handles, globals, ui>>

\* SleepOK that sleeps on the shared interval as it is when the sleep ends
SleepOKRereads ==
    /\ At("sleep")
    /\ SleepAccepts(interval_value)
    /\ clock' = clock + interval_value[2]
    /\ t' = [t EXCEPT !.pc = "loop"]
    /\ UNCHANGED <<focus, files, store, handles, globals, ui, h, left>>

\* time.sleep(sleep_int)
SleepOK ==
    /\ At("sleep")
    /\ SleepAccepts(t.sleep_int)
    /\ clock' = clock + t.sleep_int[2]
    /\ t' = [t EXCEPT !.pc = "loop"]
    /\ UNCHANGED <<focus, files, store, handles, globals, ui, h, left>>

\* time.sleep(sleep_int) returns late: the machine was suspended for as long
\* as turns the default interval into MAX_REPEAT_SEC
SleepLong ==
    /\ At("sleep")
    /\ SleepAccepts(t.sleep_int)
    /\ left.events > 0
    /\ clock' = clock + t.sleep_int[2] + (MAX_REPEAT_SEC - DEFAULT_INTERVAL)
    /\ t' = [t EXCEPT !.pc = "loop"]
    /\ left' = [left EXCEPT !.events = @ - 1]
    /\ UNCHANGED <<focus, files, store, handles, globals, ui, h>>

\* SleepInvalid whose exception is not caught: the thread ends
SleepInvalidUncaught ==
    /\ At("sleep")
    /\ ~SleepAccepts(t.sleep_int)
    /\ t' = [t EXCEPT !.pc = "done"]
    /\ UNCHANGED <<env, globals, ui, h, left>>

\* time.sleep(sleep_int) raises
SleepInvalid ==
    /\ At("sleep")
    /\ ~SleepAccepts(t.sleep_int)
    /\ t' = [t EXCEPT !.pc = "except"]
    /\ UNCHANGED <<env, globals, ui, h, left>>

\* except Exception: print(...); time.sleep(1)
Except ==
    /\ At("except")
    /\ clock' = clock + 1
    /\ t' = [t EXCEPT !.pc = "loop"]
    /\ h' = [h EXCEPT !.tick.faulted = TRUE]
    /\ UNCHANGED <<focus, files, store, handles, globals, ui, left>>

\* ------------------------------------------------------------ environment
\* the places of logger_thread whose next statement reads the clock
ClockReads == {"path_hour", "path_date", "open_hour", "open", "sample", "stamp"}

\* a second goes by between two statements of the logger thread; the clock
\* is read nowhere else, so only the seconds before a read are told apart
ClockAdvance ==
    /\ left.events > 0
    /\ t.pc \in ClockReads
    /\ clock' = clock + 1
    /\ left' = [left EXCEPT !.events = @ - 1]
    /\ UNCHANGED <<focus, files, store, handles, globals, t, ui, h>>

\* the user moves the input focus to another window, or to none; the focus
\* is read by the sample alone, so the moves since the last sample are one
\* move before the next
FocusChange ==
    /\ At("sample")
    /\ \E w \in Windows \ {focus} : focus' = w
    /\ UNCHANGED <<clock, files, store, handles, globals, t, ui, h, left>>

\* ----------------------------------------------------------------- tray menu
\* SetIntervalEnter without the lock
SetIntervalEnterNoLock(c, value) ==
    /\ TrayRuns
    /\ ui[c].pc = "idle"
    /\ left.sets > 0
    /\ ui' = [ui EXCEPT ![c] = [pc |-> "assign", value |-> value]]
    /\ left' = [left EXCEPT !.sets = @ - 1]
    /\ h' = [h EXCEPT !.last_set.any = TRUE]
    /\ UNCHANGED <<env, globals, t>>

\* set_interval(value): with interval_lock entered
SetIntervalEnter(c, value) ==
    /\ TrayRuns
    /\ ui[c].pc = "idle"
    /\ left.sets > 0
    /\ interval_lock = "free"
    /\ interval_lock' = c
    /\ ui' = [ui EXCEPT ![c] = [pc |-> "assign", value |-> value]]
    /\ left' = [left EXCEPT !.sets = @ - 1]
    /\ h' = [h EXCEPT !.last_set.any = TRUE]
    /\ UNCHANGED <<env, SESSION_ID, stop_flag, settings, interval_value, t>>

\* interval_value = value
SetIntervalAssign(c) ==
    /\ ui[c].pc = "assign"
    /\ interval_value' = JNum(ui[c].value)
    /\ ui' = [ui EXCEPT ![c].pc = "save"]
    /\ UNCHANGED <<env, SESSION_ID, stop_flag, settings, interval_lock, t, h, left>>

\* settings["interval"] = value; save_settings(settings); the lock released
SetIntervalSave(c) ==
    /\ ui[c].pc = "save"
    /\ settings' = Dict(TRUE, JNum(ui[c].value))
    /\ store' = StoreObject(settings')
    /\ interval_lock' = "free"
    /\ ui' = [ui EXCEPT ![c].pc = "idle"]
    /\ h' = [h EXCEPT !.last_set = [value |-> ui[c].value, returned |-> TRUE,
                                    any |-> TRUE]]
    /\ UNCHANGED <<clock, focus, files, handles, SESSION_ID, stop_flag,
                   interval_value, t, left>>

\* save_settings raises: open(SETTINGS_FILE, 'w') fails and the file is as it
\* was, or json.dump fails on the file open() has truncated; the exception
\* leaves set_interval through the with statement, which releases the lock
SetIntervalSaveFail(c) ==
    /\ ui[c].pc = "save"
    /\ settings' = Dict(TRUE, JNum(ui[c].value))
    /\ store' \in {store, StoreCorrupt}
    /\ interval_lock' = "free"
    /\ ui' = [ui EXCEPT ![c].pc = "idle"]
    /\ h' = [h EXCEPT !.last_set = [value |-> ui[c].value, returned |-> FALSE,
                                    any |-> TRUE]]
    /\ UNCHANGED <<clock, focus, files, handles, SESSION_ID, stop_flag,
                   interval_value, t, left>>

\* the tray draws the interval submenu: pystray calls the checked lambda of an
\* item; nothing in build_menu takes interval_lock
MenuCheckedEnter(c, sec) ==
    /\ TrayRuns
    /\ ui[c].pc = "idle"
    /\ ui' = [ui EXCEPT ![c] = [pc |-> "checked", value |-> sec]]
    /\ UNCHANGED <<env, globals, t, h, left>>

\* checked: interval_value == sec is evaluated and handed to the tray, which
\* draws the check mark
MenuCheckedRead(c) ==
    /\ ui[c].pc = "checked"
    /\ ui' = [ui EXCEPT ![c] = [pc |-> "idle",
                                value |-> IF interval_value = JNum(@.value)
                                          THEN 1 ELSE 0]]
    /\ UNCHANGED <<env, globals, t, h, left>>

\* on_exit: stop_flag = True; the loop reads the flag at its while test
\* alone, so a request made during a tick is the request made at its end
RequestStop ==
    /\ ~stop_flag
    /\ At("loop")
    /\ stop_flag' = TRUE
    /\ UNCHANGED <<env, SESSION_ID, settings, interval_value, interval_lock,
                   t, ui, h, left>>

\* icon.run() has returned and the process has ended; the program is started
\* again
Restart ==
    /\ stop_flag
    /\ left.events > 0
    /\ \A c \in Contexts : ui[c].pc = "idle"
    /\ Startup(store, SESSION_ID + 1)
    /\ h' = [h EXCEPT !.tick = TickStart(LoggerStart, FALSE), !.last_set = NoSet,
                      !.store0 = store]
    /\ left' = [left EXCEPT !.events = @ - 1]
    /\ UNCHANGED <<clock, focus, files, store>>

\* on_exit while the logger is inside a tick or asleep: the click arrives on the
\* tray thread at any point of the loop body
RequestStopMidTick ==
    /\ ~stop_flag
    /\ t.pc \notin {"loop", "exit", "done", "killed"}
    /\ stop_flag' = TRUE
    /\ UNCHANGED <<env, SESSION_ID, settings, interval_value, interval_lock,
                   t, ui, h, left>>

\* icon.stop() makes icon.run() return, main() returns without joining the
\* logger and the interpreter shuts down: the daemon thread is stopped where it
\* stands, and the operating system releases the handle the thread never closed
ProcessExit ==
    /\ stop_flag
    /\ t.pc \notin {"done", "killed"}
    /\ t' = [t EXCEPT !.pc = "killed"]
    /\ handles' = 0
    /\ UNCHANGED <<clock, focus, files, store, globals, ui, h, left>>

\* ------------------------------------------------------------ specifications
Logger ==
    \/ LoopEnter \/ PathHour \/ PathDate \/ ClosePrior \/ OpenHour \/ OpenOK
    \/ StatReset \/ Sample \/ LockAcquire \/ ReadRelease \/ Stamp \/ WriteOK
    \/ SleepOK

Late == ClockAdvance \/ SleepLong

Faults ==
    \/ OpenDenied \/ StatMissing \/ WriteFail \/ FlushFail \/ SleepInvalid
    \/ Except

Menu ==
    \/ \E c \in Contexts, v \in MenuIntervals : SetIntervalEnter(c, v)
    \/ \E c \in Contexts : SetIntervalAssign(c)
    \/ \E c \in Contexts : SetIntervalSave(c)
    \/ \E c \in Contexts : SetIntervalSaveFail(c)

\* a run starts four seconds before midnight, where the date and the bucket
\* change together, or in the middle of a bucket
BeforeMidnight == {SecondsPerDay - 4}
MidBucket == {13 * SecondsPerHour}

\* settings.json is missing, or it was edited to hold an interval that
\* time.sleep rejects
InitialStores == {StoreAbsent, StoreObject(Dict(TRUE, JNum(-1)))}

Budget == [ticks |-> MaxTicks, events |-> MaxEvents, sets |-> 0]

Init ==
    \/ InitWith(BeforeMidnight, {NoWindow}, InitialStores, Budget)
    \/ InitWith(MidBucket, {NoWindow}, {StoreAbsent}, Budget)

Next ==
    \/ Logger \/ Faults \/ Late \/ FocusChange
    \/ RequestStop \/ LoopExit \/ ThreadExit \/ Restart

Spec == Init /\ [][Next]_vars

\* the interval controller: the tray menu sets the interval from two contexts
\* while the logger runs undisturbed, from each kind of settings.json
CtlStores ==
    {StoreAbsent, StoreCorrupt, StoreObject(Dict(TRUE, JNum(5))),
     StoreObject(Dict(FALSE, JNull))}

InitCtl ==
    InitWith(MidBucket, {<<"chrome.exe", "Docs">>}, CtlStores,
             [ticks |-> CtlTicks, events |-> MaxEvents - 1, sets |-> MaxSets])

NextCtl ==
    \/ Logger \/ Menu
    \/ RequestStop \/ LoopExit \/ ThreadExit \/ Restart

SpecCtl == InitCtl /\ [][NextCtl]_vars

\* the steady scenario: one window keeps the focus, the interval is 1, the
\* clock is never late and no call fails
InitSteady ==
    InitWith(MidBucket, {<<"chrome.exe", "Docs">>},
             {StoreObject(Dict(TRUE, JNum(1)))},
             [ticks |-> SteadyTicks, events |-> 0, sets |-> 0])

NextSteady == Logger

SpecSteady == InitSteady /\ [][NextSteady]_vars

\* the shutdown scenario: the Exit item is clicked at any point of a tick while
\* the logger runs undisturbed
InitStop ==
    InitWith(MidBucket, {NoWindow}, {StoreAbsent},
             [ticks |-> StopTicks, events |-> 0, sets |-> 0])

NextStop ==
    \/ Logger \/ FocusChange
    \/ RequestStop \/ RequestStopMidTick \/ LoopExit \/ ThreadExit
    \/ ProcessExit

SpecStop == InitStop /\ [][NextStop]_vars

\* the startup scenario: the program starts from each kind of settings.json,
\* also one it cannot use, and the tray menu sets the interval afterwards
StartStores ==
    {StoreAbsent, StoreUnreadable, StoreCorrupt, StoreList,
     StoreObject(Dict(FALSE, JNull)), StoreObject(Dict(TRUE, JNum(0))),
     StoreObject(Dict(TRUE, JNum(-1))), StoreObject(Dict(TRUE, JStr)),
     StoreObject(Dict(TRUE, JNum(10)))}

InitStart ==
    \/ InitWith(MidBucket, {<<"chrome.exe", "Docs">>},
                {st \in StartStores : IsDict(load_settings(st))},
                [ticks |-> CtlTicks, events |-> 0, sets |-> MaxSets])
    \/ InitCrashed(MidBucket, {<<"chrome.exe", "Docs">>},
                   {st \in StartStores : ~IsDict(load_settings(st))})

NextStart == Logger \/ SleepInvalid \/ Except \/ Menu

SpecStart == InitStart /\ [][NextStart]_vars

\* the sleep scenario: the tray menu sets the interval at any point of two
\* ticks and their sleeps
InitSleep ==
    InitWith(MidBucket, {<<"chrome.exe", "Docs">>}, {StoreAbsent},
             [ticks |-> SleepTicks, events |-> 0, sets |-> MaxSets])

NextSleep == Logger \/ Menu

SpecSleep == InitSleep /\ [][NextSleep]_vars

\* the menu scenario: the tray draws the interval submenu and sets the interval
\* while the logger runs
InitMenu ==
    InitWith(MidBucket, {<<"chrome.exe", "Docs">>}, {StoreAbsent},
             [ticks |-> CtlTicks, events |-> 0, sets |-> MaxSets])

NextMenu ==
    \/ Logger \/ Menu
    \/ \E c \in Contexts, sec \in MenuIntervals : MenuCheckedEnter(c, sec)
    \/ \E c \in Contexts : MenuCheckedRead(c)

SpecMenu == InitMenu /\ [][NextMenu]_vars

\* ------------------------------------------------------------------ claims
\* the records of the file at p, in file order
Records(p) == SelectSeq(files[p], LAMBDA r : r.kind = "record")

LastRow(p) == files[p][Len(files[p])]

\* C1: in every log file the sequence ids of the records, read in file
\* order, are exactly 1, 2, 3, ... with no gap and no repeated id.
C1_IdsAreOneTwoThree ==
    \A p \in DOMAIN files :
        \A i \in 1..Len(Records(p)) : Records(p)[i].id = i

\* the tick in progress has rotated, has run its emission step to the end
\* without an exception, and is about to sleep
Rotated == h.tick.rotated
Sampled == h.tick.sampled

\* what a rotating tick has done when it appended its record
RotationDone ==
    /\ h.tick.emitted = 1
    /\ t.seq_id = 1
    /\ ~t.current_file.closed
    /\ handles = 1
    /\ t.current_path = t.log_path
    /\ LastRow(t.current_file.path)
         = RecordRow(SESSION_ID, 1, t.timestamp, t.exe, t.title)

C3_HeaderOnce ==
    \A p \in DOMAIN files :
        \/ files[p] = <<>>
        \/ /\ files[p][1] = HeaderRow
           /\ \A i \in 2..Len(files[p]) : files[p][i].kind = "record"

\* the tick's observation is the one last written and at most 300 seconds
\* have passed since, and the tick did not rotate
Repeat ==
    /\ Sampled /\ ~Rotated
    /\ t.exe = h.tick.pre_exe /\ t.title = h.tick.pre_title
    /\ t.now - h.tick.pre_write <= MAX_REPEAT_SEC

\* C4: a tick without rotation whose observation equals lastObservation and
\* whose now is at most 300 seconds after lastWriteTime appends no record and
\* leaves lastObservation, lastWriteTime and the sequence counter unchanged.
C4_RepeatIsSilent ==
    Repeat =>
        /\ h.tick.emitted = 0
        /\ t.seq_id = h.tick.pre_seq
        /\ t.last_exe = h.tick.pre_exe /\ t.last_title = h.tick.pre_title
        /\ t.last_write_time = h.tick.pre_write

\* a tick ended silent exactly 300 seconds after the last record
C4_Witness ==
    /\ Repeat /\ t.pc = "sleep"
    /\ h.tick.pre_seq > 0
    /\ t.now - h.tick.pre_write = MAX_REPEAT_SEC

\* last_write_time as the tick's emission test read it
WriteTimeTested == IF Rotated THEN 0 ELSE h.tick.pre_write

Overdue == Sampled /\ t.now - WriteTimeTested > MAX_REPEAT_SEC

C10_LoopSurvives ==
    [][ /\ (t'.pc = "exit" /\ t.pc # "exit") => (t.pc = "loop" /\ stop_flag)
        /\ (t'.pc = "done" /\ t.pc # "done") => t.pc = "exit"
        /\ (t.pc = "except" /\ t'.pc # "except")
             => (t'.pc = "loop" /\ clock' = clock + 1 /\ ~stop_flag') ]_vars

\* the loop has started another tick after a tick that raised
C10_Witness == t.pc = "path_hour" /\ h.tick.after_fault /\ ~stop_flag

\* the records the steady scenario has written when a tick sleeps: one at the
\* first tick and one at each first tick more than 300 seconds after the
\* record before
SteadyRows(n) ==
    [i \in 1..(n \div (MAX_REPEAT_SEC + 1) + 1) |->
        RecordRow(SESSION_ID, i, h.clock0 + (i - 1) * (MAX_REPEAT_SEC + 1),
                  "chrome.exe", "Docs")]

\* C6: with a constant observation, interval 1 and no rotation a record is
\* written at the first tick and then at the first tick strictly more than
\* 300 seconds after the record before, and at no other tick; after 301
\* seconds there are exactly 2 records, with sequence ids 1 and 2.
C6_SteadyKeepalive ==
    t.pc = "sleep" =>
        /\ t.now - h.clock0 = SteadyTicks - left.ticks - 1
        /\ Records(t.current_path) = SteadyRows(t.now - h.clock0)
        /\ DOMAIN files = {t.current_path}

\* the tick 301 seconds into the run has written the second record
C6_Witness ==
    /\ t.pc = "sleep"
    /\ t.now - h.clock0 = MAX_REPEAT_SEC + 1
    /\ Len(Records(t.current_path)) = 2
    /\ Records(t.current_path)[2].id = 2
    /\ Records(t.current_path)[2].exe = Records(t.current_path)[1].exe
    /\ h.tick.emitted = 1

AllIdle == \A c \in Contexts : ui[c].pc = "idle"

\* C7: after set(v) has returned and before any later set, the interval in
\* memory, which the loop reads under the lock, is v, and settings.json holds
\* interval = v; this is so also when two contexts call set at the same time.
C7_SetThenGet ==
    (h.last_set.returned /\ AllIdle) =>
        /\ interval_value = JNum(h.last_set.value)
        /\ settings = Dict(TRUE, JNum(h.last_set.value))
        /\ store = StoreObject(Dict(TRUE, JNum(h.last_set.value)))
        /\ t.pc = "read" => interval_lock = "logger"

\* two sets have returned and the loop sleeps on the value of the last
C7_Witness ==
    /\ h.last_set.returned /\ AllIdle
    /\ left.sets = MaxSets - 2
    /\ t.pc = "sleep"
    /\ t.sleep_int = JNum(h.last_set.value)
    /\ h.last_set.value # DEFAULT_INTERVAL

\* the run started without a settings.json and no set has been called
Fresh == h.store0.kind = "absent" /\ ~h.last_set.any

FirstTickDone == t.pc \in {"loop", "exit", "done"} /\ Sampled

\* C8 as stated: on a fresh run the interval is 3 and after the first tick
\* settings.json holds {"interval": 3}.
C8_FirstTickPersistsDefault ==
    (Fresh /\ FirstTickDone) =>
        /\ interval_value = JNum(DEFAULT_INTERVAL)
        /\ store = StoreObject(Dict(TRUE, JNum(DEFAULT_INTERVAL)))

\* C8 amended: on a fresh run the interval is 3, and until a set-interval
\* command is issued there is still no settings.json, also after the loop's
\* first tick.
C8_FreshRunKeepsNoStore ==
    Fresh => (interval_value = JNum(DEFAULT_INTERVAL) /\ store = StoreAbsent)

\* the first tick of a fresh run is over and slept on the default interval
C8_Witness ==
    /\ Fresh /\ FirstTickDone
    /\ t.sleep_int = JNum(DEFAULT_INTERVAL)
    /\ store = StoreAbsent

\* C9: whenever the interval lock is free, the interval settings.json yields
\* is the interval in memory.
C9_StoreMatchesMemory ==
    interval_lock = "free" =>
        settings_get_interval(load_settings(store)) = interval_value


\* C11: once on_exit has set stop_flag the loop starts no further tick, a sleep
\* in progress always runs to its end, and the thread ends only by leaving the
\* loop at the while test and closing the file it has open
Ended == t.pc \in {"done", "killed"}

C11_StopIsGraceful ==
    [][/\ (stop_flag /\ t.pc = "loop") => t'.pc \in {"loop", "exit"}
       /\ (t.pc = "sleep" /\ t'.pc # "sleep") => t'.pc \in {"loop", "except"}
       /\ Ended' => (t'.pc = "done" /\ t'.current_file.closed)]_vars


\* C12: one call of safe_open_log makes at most three attempts and waits one
\* second after a refused one; when all three are refused the tick gets the
\* error and no file: it appends nothing, current_path and seq_id stay as they
\* were before the tick, and the next tick has to rotate again
OpenGaveUp == t.attempts = OPEN_ATTEMPTS

C12_Refused == t.pc = "open" /\ t'.attempts = t.attempts + 1

C12_OpenGivesUp ==
    /\ [](/\ t.attempts <= OPEN_ATTEMPTS
          /\ OpenGaveUp =>
                /\ t.pc \in {"except", "loop", "exit", "done",
                             "path_hour", "path_date", "close"}
                /\ t.current_file.closed
                /\ t.current_path = h.tick.pre_path
                /\ t.seq_id = h.tick.pre_seq
                /\ h.tick.emitted = 0)
    /\ [][C12_Refused =>
              /\ clock' = clock + 1
              /\ files' = files
              /\ t'.pc = IF OpenGaveUp' THEN "except" ELSE "open_hour"]_vars

\* the tick after the one whose open gave up has resolved its path and
\* rotates again
C12_Witness ==
    /\ OpenGaveUp /\ t.pc = "close"
    /\ h.tick.after_fault /\ Rotated


\* C13: the interval in memory is a positive integer in every state the
\* program reaches, whatever settings.json held at startup and whatever was
\* set since, and so is the value the loop has read from it
PositiveInteger(v) == v[1] = "num" /\ v[2] > 0

C13_IntervalPositive ==
    /\ PositiveInteger(interval_value)
    /\ t.pc \in {"stamp", "write", "sleep"} => PositiveInteger(t.sleep_int)


\* C20: when settings.json is not a JSON object that carries an interval (no
\* file, a file that cannot be read or parsed, a JSON value that is not an
\* object, an object without the key) startup completes, the interval is 3 until
\* it is set, and a set that returns afterwards has written its value to the file
NoIntervalStored(st) == st.kind # "object" \/ ~st.dict.has_interval

C20_StartupFallsBack ==
    NoIntervalStored(h.store0) =>
        /\ t.pc # "crashed"
        /\ ~h.last_set.any => interval_value = JNum(DEFAULT_INTERVAL)
        /\ (h.last_set.returned /\ AllIdle) =>
               store = StoreObject(Dict(TRUE, JNum(h.last_set.value)))


\* C14: the path that current_log_path returns is the path of one instant of
\* its call: its date and its bucket are never those of two different moments,
\* also when the clock moves on during the call
PathAt(tau) == LogPath(strftime_date(tau), HourBlock(tau))

C14_PathOfOneInstant ==
    t.log_path # NoPath => \E tau \in h.clock0 .. clock : t.log_path = PathAt(tau)

\* C15: every record lies in the file of the date and bucket of its own
\* timestamp, also when the clock crosses a boundary inside a tick
C15_RecordInItsBucket ==
    \A p \in DOMAIN files :
        \A i \in 1 .. Len(Records(p)) : PathAt(Records(p)[i].ts) = p

\* C16: the file that a rotation opened is the file of the path the tick
\* resolved, and while the loop writes, its file is open and is the file that
\* current_path names
C16_HandleIsCurrentPath ==
    /\ t.pc = "stat" => t.current_file.path = t.log_path
    /\ t.pc \in {"sample", "lock", "read", "stamp", "write"} =>
           /\ ~t.current_file.closed
           /\ t.current_file.path = t.current_path

\* C17: a tick whose writerow or flush raised leaves seq_id, last_exe,
\* last_title and last_write_time as they were before it wrote (as the tick
\* found them, or as its rotation reset them), so that no id is skipped
WriteRaised == t.pc = "except" /\ Sampled /\ SleepAccepts(t.sleep_int)

C17_FailedWriteKeepsState ==
    WriteRaised =>
        /\ t.seq_id = IF Rotated THEN 0 ELSE h.tick.pre_seq
        /\ t.last_exe = IF Rotated THEN None ELSE h.tick.pre_exe
        /\ t.last_title = IF Rotated THEN None ELSE h.tick.pre_title
        /\ t.last_write_time = IF Rotated THEN 0 ELSE h.tick.pre_write


\* C18: a tick sleeps for exactly the interval it read under the lock: a set
\* made after the read, during the rest of the tick or during the sleep,
\* leaves that sleep as it is; and what a tick reads is the value of the
\* latest set (the startup value when there was none), so no set is lost and
\* no other value is ever slept on
LatestSet ==
    IF h.last_set.any THEN JNum(h.last_set.value)
    ELSE settings_get_interval(load_settings(h.store0))

C18_SleepsOnItsRead ==
    /\ [](t.pc = "read" => (AllIdle /\ interval_value = LatestSet))
    /\ [][/\ (t.pc = "read" /\ t'.pc # "read") => t'.sleep_int = LatestSet
          /\ t.pc \in {"stamp", "write", "sleep"} => t'.sleep_int = t.sleep_int
          /\ (t.pc = "sleep" /\ t'.pc # "sleep") =>
                 clock' = clock + t.sleep_int[2]]_vars

\* the first tick slept on the default, the second tick has read the value
\* that was set meanwhile and sleeps on it, and another set has since changed
\* the interval
C18_Witness ==
    /\ t.pc = "sleep" /\ left.ticks = SleepTicks - 2
    /\ clock = h.clock0 + DEFAULT_INTERVAL
    /\ t.sleep_int \notin {JNum(DEFAULT_INTERVAL), interval_value}
    /\ h.last_set.returned /\ AllIdle


\* C19: whoever reads or writes the shared interval holds interval_lock while
\* it does: the loop at its read, a context inside set_interval, and a context
\* that evaluates the interval for the menu's check mark
C19_AccessUnderLock ==
    /\ t.pc = "read" => interval_lock = "logger"
    /\ \A c \in Contexts :
           ui[c].pc \in {"assign", "save", "checked"} => interval_lock = c

====
